---- MODULE Spec2Model ----
(***************************************************************************)
(* Model of the two batch jobs of the repository:                          *)
(*   build_parts_json.py  : Lark table -> parts/models snapshot            *)
(*   build_shopify_map.py : Shopify catalog -> SKU map                     *)
(* Strings are sequences of one-character strings, so that strip(),        *)
(* lower(), _slug(), int() and float() are computed and not assumed.       *)
(* Prices are integer valued (5 stands for 5.0).                           *)
(***************************************************************************)
EXTENDS Integers, Sequences, FiniteSets

VARIABLES job, pc, err,
          fetched, rows, page_token, idx, models_by_key, parts_by_sku, parts_file,
          i, log, slept, cursor, data, seen, sku_map, map_file

parts_vars == <<fetched, rows, page_token, idx, models_by_key, parts_by_sku, parts_file>>
shop_vars  == <<i, log, slept, cursor, data, seen, sku_map, map_file>>
vars == <<job, pc, err, parts_vars, shop_vars>>

(* ------------------------------ bounds --------------------------------- *)
MaxRows       == 2   \* raw records one run of the default job may receive
MaxRowsMerge  == 2   \* raw records in the merge scenarios
MaxRowsModels == 3   \* raw records in the model-id scenarios
MaxRowsNorm   == 1   \* raw records in the normalizer scenarios
MaxPage       == 2   \* records in one page of the table
MaxVariants   == 2   \* variants one catalog run may receive
MaxCalls      == 2   \* run_gql calls (pages) of one catalog run

(* ------------------------------ strings -------------------------------- *)
LowerLetters == <<"a","b","c","d","e","f","g","h","i","j","k","l","m",
                  "n","o","p","q","r","s","t","u","v","w","x","y","z">>
UpperLetters == <<"A","B","C","D","E","F","G","H","I","J","K","L","M",
                  "N","O","P","Q","R","S","T","U","V","W","X","Y","Z">>
DigitChars   == <<"0","1","2","3","4","5","6","7","8","9">>

Range(f) == {f[x] : x \in DOMAIN f}
PosIn(c, s) == CHOOSE k \in DOMAIN s : s[k] = c

IsDigit(c) == c \in Range(DigitChars)
IsSpace(c) == c = " "
IsSlugChar(c) == c \in Range(LowerLetters) \cup Range(DigitChars)

\* code point of a character of the alphabet (ASCII)
Ord(c) ==
  IF c = " " THEN 32
  ELSE IF c = "-" THEN 45
  ELSE IF c = "/" THEN 47
  ELSE IF c \in Range(DigitChars) THEN 47 + PosIn(c, DigitChars)
  ELSE IF c \in Range(UpperLetters) THEN 64 + PosIn(c, UpperLetters)
  ELSE IF c \in Range(LowerLetters) THEN 96 + PosIn(c, LowerLetters)
  ELSE 46

LowerChar(c) ==
  IF c \in Range(UpperLetters) THEN LowerLetters[PosIn(c, UpperLetters)] ELSE c

\* str.lower()
Lower(s) == [k \in DOMAIN s |-> LowerChar(s[k])]

RECURSIVE LStripChar(_, _)
LStripChar(s, c) ==
  IF s # <<>> /\ Head(s) = c THEN LStripChar(Tail(s), c) ELSE s

RECURSIVE RStripChar(_, _)
RStripChar(s, c) ==
  IF s # <<>> /\ s[Len(s)] = c THEN RStripChar(SubSeq(s, 1, Len(s) - 1), c) ELSE s

\* str.strip(c)
StripChar(s, c) == RStripChar(LStripChar(s, c), c)

\* str.strip()
Strip(s) == StripChar(s, " ")

\* re.sub(r"[^a-z0-9]+", "-", s): every maximal run becomes one hyphen
RECURSIVE SubNonSlug(_, _)
SubNonSlug(s, inRun) ==
  IF s = <<>> THEN <<>>
  ELSE IF IsSlugChar(Head(s)) THEN <<Head(s)>> \o SubNonSlug(Tail(s), FALSE)
  ELSE IF inRun THEN SubNonSlug(Tail(s), TRUE)
  ELSE <<"-">> \o SubNonSlug(Tail(s), TRUE)

\* re.sub(r"-+", "-", s)
RECURSIVE CollapseHyphens(_, _)
CollapseHyphens(s, inRun) ==
  IF s = <<>> THEN <<>>
  ELSE IF Head(s) # "-" THEN <<Head(s)>> \o CollapseHyphens(Tail(s), FALSE)
  ELSE IF inRun THEN CollapseHyphens(Tail(s), TRUE)
  ELSE <<"-">> \o CollapseHyphens(Tail(s), TRUE)

_slug(s) ==
  StripChar(CollapseHyphens(SubNonSlug(Lower(Strip(s)), FALSE), FALSE), "-")

\* str(n) for a natural number
RECURSIVE ToString(_)
ToString(n) ==
  IF n < 10 THEN <<DigitChars[n + 1]>>
  ELSE ToString(n \div 10) \o <<DigitChars[(n % 10) + 1]>>

RECURSIVE DigitsValue(_, _)
DigitsValue(s, acc) ==
  IF s = <<>> THEN acc
  ELSE DigitsValue(Tail(s), 10 * acc + (PosIn(Head(s), DigitChars) - 1))

\* int(s) / float(s) of a string holding a decimal integer literal:
\* surrounding whitespace is accepted, anything else raises ValueError
ParseNumber(s) ==
  LET t == Strip(s)
      neg == t # <<>> /\ Head(t) = "-"
      d == IF t # <<>> /\ Head(t) \in {"-", "+"} THEN Tail(t) ELSE t
  IN IF d # <<>> /\ \A k \in DOMAIN d : IsDigit(d[k])
     THEN [ok |-> TRUE, v |-> IF neg THEN 0 - DigitsValue(d, 0) ELSE DigitsValue(d, 0)]
     ELSE [ok |-> FALSE, v |-> 0]

\* s < t in Python's string order (code points, shorter prefix first)
RECURSIVE StrLess(_, _)
StrLess(s, t) ==
  IF t = <<>> THEN FALSE
  ELSE IF s = <<>> THEN TRUE
  ELSE IF Ord(Head(s)) # Ord(Head(t)) THEN Ord(Head(s)) < Ord(Head(t))
  ELSE StrLess(Tail(s), Tail(t))

\* sorted(items, key=...): stable; items are records [k |-> key, v |-> value]
RECURSIVE InsertByKey(_, _)
InsertByKey(sorted, x) ==
  IF sorted = <<>> THEN <<x>>
  ELSE IF StrLess(x.k, Head(sorted).k) THEN <<x>> \o sorted
  ELSE <<Head(sorted)>> \o InsertByKey(Tail(sorted), x)

RECURSIVE SortByKey(_)
SortByKey(items) ==
  IF items = <<>> THEN <<>>
  ELSE InsertByKey(SortByKey(SubSeq(items, 1, Len(items) - 1)), items[Len(items)])

\* sorted(list(a_set_of_strings))
RECURSIVE SortedStrings(_)
SortedStrings(S) ==
  IF S = {} THEN <<>>
  ELSE LET m == CHOOSE x \in S : \A y \in S : x = y \/ StrLess(x, y)
       IN <<m>> \o SortedStrings(S \ {m})

SeqsUpTo(S, n) == UNION {[1..k -> S] : k \in 0..n}
Min(a, b) == IF a < b THEN a ELSE b

(* --------------------- raw field values (JSON) ------------------------- *)
\* t: absent | null | num | str | list | dict
\* list: k = "none" (empty list) or the type of its first element, whose
\*       payload is in s / s2 / n;  dict: k = "text" when it has a "text" key
\*       (value s), k = "pic" for a picture object (url s, value s2),
\*       k = "other" for any other non-empty object, k = "none" for {}
Raw(t, k, s, s2, n) == [t |-> t, k |-> k, s |-> s, s2 |-> s2, n |-> n]
Absent      == Raw("absent", "none", <<>>, <<>>, 0)
Null        == Raw("null", "none", <<>>, <<>>, 0)
Num(n)      == Raw("num", "none", <<>>, <<>>, n)
Str(s)      == Raw("str", "none", s, <<>>, 0)
EmptyList   == Raw("list", "none", <<>>, <<>>, 0)
ListOfNum(n) == Raw("list", "num", <<>>, <<>>, n)
ListOfStr(s) == Raw("list", "str", s, <<>>, 0)
ListOfPic(url, value) == Raw("list", "pic", url, value, 0)
EmptyDict   == Raw("dict", "none", <<>>, <<>>, 0)
TextDict(s) == Raw("dict", "text", s, <<>>, 0)
OtherDict   == Raw("dict", "other", <<>>, <<>>, 0)

\* Python truth value of a JSON value (absent reads as None)
Truthy(x) ==
  CASE x.t = "num"  -> x.n # 0
    [] x.t = "str"  -> x.s # <<>>
    [] x.t = "list" -> x.k # "none"
    [] x.t = "dict" -> x.k # "none"
    [] OTHER        -> FALSE

\* str(x) of a scalar
PyStr(x) ==
  CASE x.t = "str" -> x.s
    [] x.t = "num" -> IF x.n < 0 THEN <<"-">> \o ToString(0 - x.n) ELSE ToString(x.n)
    [] OTHER       -> <<"N", "o", "n", "e">>

\* float(x) / int(x) of one JSON value: result or exception
ToNumber(x) ==
  CASE x.t = "num" -> [ok |-> TRUE, v |-> x.n]
    [] x.t = "str" -> ParseNumber(x.s)
    [] OTHER       -> [ok |-> FALSE, v |-> 0]

\* the first element of a non-empty list, as a value of its own
FirstOf(x) ==
  CASE x.k = "num" -> Num(x.n)
    [] x.k = "str" -> Str(x.s)
    [] OTHER       -> OtherDict

_to_float(x) ==
  LET y == IF x.t = "list" THEN (IF x.k # "none" THEN FirstOf(x) ELSE Num(0)) ELSE x
      r == ToNumber(y)
  IN IF r.ok THEN r.v ELSE 0

\* int(f.get("Current stock", 0) or 0): no handler around the conversion
StockOf(x) == IF Truthy(x) THEN ToNumber(x) ELSE [ok |-> TRUE, v |-> 0]

\* mn_raw.get("text") if isinstance(mn_raw, dict) else str(mn_raw or ""),
\* then str(model_number) when the row is built
ModelNumberOf(x) ==
  LET mn_raw == IF x.t = "absent" THEN EmptyDict ELSE x
  IN IF mn_raw.t = "dict"
     THEN (IF mn_raw.k = "text" THEN mn_raw.s ELSE PyStr(Null))
     ELSE (IF Truthy(mn_raw) THEN PyStr(mn_raw) ELSE <<>>)

\* f.get("Model Name-English", "") or ""
ModelNameOf(x) == IF Truthy(x) THEN x.s ELSE <<>>

\* pics[0].get("url") or pics[0].get("value") or ""
PictureOf(x) ==
  IF x.t = "list" /\ x.k = "pic"
  THEN (IF x.s # <<>> THEN x.s ELSE x.s2)
  ELSE <<>>

\* f.get("English Name", "")
PartNameOf(x) == IF x.t = "str" THEN x.s ELSE <<>>

RawRecord(pn, name, mnum, mname, price, stock, pics) ==
  [PN |-> pn, EnglishName |-> name, ModelNumber |-> mnum, ModelName |-> mname,
   Price |-> price, Stock |-> stock, Pictures |-> pics]

\* one pass of the loop body over a record: skipped, a row, or an exception
NormalizeRecord(f) ==
  IF ~Truthy(f.PN) THEN [kind |-> "skip"]
  ELSE IF ~StockOf(f.Stock).ok THEN [kind |-> "raise"]
  ELSE [kind |-> "row",
        row |-> [sku |-> Strip(PyStr(f.PN)),
                 name |-> PartNameOf(f.EnglishName),
                 model_number |-> ModelNumberOf(f.ModelNumber),
                 model_name |-> ModelNameOf(f.ModelName),
                 stock |-> StockOf(f.Stock).v,
                 image |-> PictureOf(f.Pictures),
                 price |-> _to_float(f.Price)]]

\* the for-loop over one page: rows appended, or the exception that ends it
RECURSIVE NormalizePage(_, _)
NormalizePage(items, acc) ==
  IF items = <<>> THEN [ok |-> TRUE, rows |-> acc]
  ELSE LET n == NormalizeRecord(Head(items))
       IN IF n.kind = "raise" THEN [ok |-> FALSE, rows |-> acc]
          ELSE IF n.kind = "skip" THEN NormalizePage(Tail(items), acc)
          ELSE NormalizePage(Tail(items), Append(acc, n.row))

(* ------------------------- parts job: state ---------------------------- *)
NoFile == [written |-> FALSE, models |-> <<>>, parts |-> <<>>]
NoMap  == [written |-> FALSE, map |-> <<>>]
NoPage == [edges |-> <<>>, hasNextPage |-> FALSE]

\* variant of Transient: status 500 is retried as well
TransientWith500 == {429, 520, 502, 503, 500}

Transient == {429, 520, 502, 503}
retries == 3

InitCommon ==
  /\ pc = "start" /\ err = "none"
  /\ fetched = <<>> /\ rows = <<>> /\ page_token = <<>> /\ idx = 0
  /\ models_by_key = <<>> /\ parts_by_sku = <<>> /\ parts_file = NoFile
  /\ i = 0 /\ log = <<>> /\ slept = <<>> /\ cursor = 0 /\ data = NoPage
  /\ seen = <<>> /\ sku_map = <<>> /\ map_file = NoMap

InitParts == job = "parts" /\ InitCommon
Init == job \in {"parts", "shopify"} /\ InitCommon

Fail(e) == pc' = "failed" /\ err' = e

(* --------------------------- get_lark_headers -------------------------- *)
\* body: "token" (JSON with tenant_access_token), "notoken" (JSON carrying
\* code/msg only), "notjson"
get_lark_headers ==
  /\ job = "parts" /\ pc = "start"
  /\ \E body \in {"token", "notoken", "notjson"} :
       IF body = "token" THEN pc' = "fetch" /\ err' = err
       ELSE Fail("RuntimeError")
  /\ UNCHANGED <<job, parts_vars, shop_vars>>

(* ------------------------- load_lark_spare_parts ----------------------- *)
\* one iteration of the while loop: one GET and the page it returns
FetchPage(Records, maxRows) ==
  /\ job = "parts" /\ pc = "fetch"
  /\ \E status \in {200, 500},
        items \in SeqsUpTo(Records, Min(MaxPage, maxRows - Len(fetched))),
        token \in {<<>>, <<" ">>, <<"t">>} :
       /\ IF status # 200
          THEN Fail("HTTPError") /\ UNCHANGED <<fetched, rows, page_token>>
          ELSE IF items = <<>>
          THEN pc' = "aggregate" /\ UNCHANGED <<err, fetched, rows, page_token>>
          ELSE LET n == NormalizePage(items, rows)
               IN /\ fetched' = fetched \o items
                  /\ IF ~n.ok
                     THEN Fail("ValueError") /\ UNCHANGED <<rows, page_token>>
                     ELSE /\ rows' = n.rows
                          /\ page_token' = Strip(token)
                          /\ pc' = IF Strip(token) = <<>> THEN "aggregate" ELSE "fetch"
                          /\ err' = err
  /\ UNCHANGED <<job, idx, models_by_key, parts_by_sku, parts_file, shop_vars>>

(* ------------------------------ aggregator ----------------------------- *)
ModelIds(models) == {models[k].id : k \in DOMAIN models}
ModelKeys(models) == {models[k].key : k \in DOMAIN models}
ModelOfKey(models, key) == models[CHOOSE k \in DOMAIN models : models[k].key = key]

\* variant of FreeId: the suffixed id is not tested again
FreeIdOnce(model_id, orig, n, ids) ==
  IF model_id \in ids THEN orig \o <<"-">> \o ToString(n) ELSE model_id

\* while any(m["id"] == model_id ...): model_id = f"{orig}-{i}"; i += 1
RECURSIVE FreeId(_, _, _, _)
FreeId(model_id, orig, n, ids) ==
  IF model_id \in ids
  THEN FreeId(orig \o <<"-">> \o ToString(n), orig, n + 1, ids)
  ELSE model_id

\* key = (model_number or model_name or "").strip()
ModelKey(model_number, model_name) ==
  Strip(IF model_number # <<>> THEN model_number ELSE model_name)

\* returns [models |-> the dictionary afterwards, some |-> FALSE for None, id]
ensure_model_id(models, model_number, model_name) ==
  LET key == ModelKey(model_number, model_name)
  IN IF key = <<>> THEN [models |-> models, some |-> FALSE, id |-> <<>>]
     ELSE IF key \in ModelKeys(models)
     THEN [models |-> models, some |-> TRUE, id |-> ModelOfKey(models, key).id]
     ELSE LET orig == IF model_number # <<>> THEN _slug(model_number) ELSE _slug(model_name)
              model_id == FreeId(orig, orig, 2, ModelIds(models))
          IN [models |-> Append(models,
                           [key |-> key, id |-> model_id,
                            name |-> IF model_name # <<>> THEN model_name ELSE model_number]),
              some |-> TRUE, id |-> model_id]

PartSkus(parts) == {parts[k].sku : k \in DOMAIN parts}
PartIndex(parts, sku) == CHOOSE k \in DOMAIN parts : parts[k].sku = sku

\* variant of MergeRow: the price of every row is stored, zero or not
MergeRowPriceLastRow(p, r, mid) ==
  [sku   |-> p.sku,
   name  |-> IF r.name # <<>> THEN r.name ELSE p.name,
   price_eur |-> r.price,
   stock |-> r.stock,
   image |-> IF r.image # <<>> THEN r.image ELSE p.image,
   compatible_models |->
     IF mid.some /\ mid.id # <<>> THEN p.compatible_models \cup {mid.id}
     ELSE p.compatible_models]

\* variant of MergeRow: the stock is tested for truth like the other fields
MergeRowStockNonZero(p, r, mid) ==
  [sku   |-> p.sku,
   name  |-> IF r.name # <<>> THEN r.name ELSE p.name,
   price_eur |-> IF r.price # 0 THEN r.price ELSE p.price_eur,
   stock |-> IF r.stock # 0 THEN r.stock ELSE p.stock,
   image |-> IF r.image # <<>> THEN r.image ELSE p.image,
   compatible_models |->
     IF mid.some /\ mid.id # <<>> THEN p.compatible_models \cup {mid.id}
     ELSE p.compatible_models]

\* the fields written for a part that is already in parts_by_sku
MergeRow(p, r, mid) ==
  [sku   |-> p.sku,
   name  |-> IF r.name # <<>> THEN r.name ELSE p.name,
   price_eur |-> IF r.price # 0 THEN r.price ELSE p.price_eur,
   stock |-> r.stock,
   image |-> IF r.image # <<>> THEN r.image ELSE p.image,
   compatible_models |->
     IF mid.some /\ mid.id # <<>> THEN p.compatible_models \cup {mid.id}
     ELSE p.compatible_models]

NewPart(r) ==
  [sku |-> r.sku, name |-> r.name, price_eur |-> r.price, stock |-> r.stock,
   image |-> r.image, compatible_models |-> {}]

\* one iteration of "for r in rows"
AggregateRow ==
  /\ job = "parts" /\ pc = "aggregate" /\ idx < Len(rows)
  /\ LET r == rows[idx + 1]
         parts1 == IF r.sku \in PartSkus(parts_by_sku) THEN parts_by_sku
                   ELSE Append(parts_by_sku, NewPart(r))
         mid == ensure_model_id(models_by_key, r.model_number, r.model_name)
         k == PartIndex(parts1, r.sku)
     IN /\ models_by_key' = mid.models
        /\ parts_by_sku' = [parts1 EXCEPT ![k] = MergeRow(parts1[k], r, mid)]
  /\ idx' = idx + 1
  /\ UNCHANGED <<job, pc, err, fetched, rows, page_token, parts_file, shop_vars>>

OutModels(models) ==
  LET keyed == [k \in DOMAIN models |->
                  [k |-> Lower(models[k].name),
                   v |-> [id |-> models[k].id, name |-> models[k].name]]]
      srt == SortByKey(keyed)
  IN [k \in DOMAIN srt |-> srt[k].v]

OutParts(parts) ==
  LET keyed == [k \in DOMAIN parts |->
                  [k |-> parts[k].sku,
                   v |-> [parts[k] EXCEPT
                            !.compatible_models = SortedStrings(parts[k].compatible_models)]]]
      srt == SortByKey(keyed)
  IN [k \in DOMAIN srt |-> srt[k].v]

\* sorting, building "out" and writing it, after the last row.  Lines
\* 170-172 open the file and dump "out" into it; line 171 is not indented
\* under the "with" of line 170, so the script as it stands is rejected by
\* the compiler before anything runs.  The write is modelled as the single
\* step those lines describe.
WriteSnapshot ==
  /\ job = "parts" /\ pc = "aggregate" /\ idx = Len(rows)
  /\ parts_file' = [written |-> TRUE, models |-> OutModels(models_by_key),
                    parts |-> OutParts(parts_by_sku)]
  /\ pc' = "done"
  /\ UNCHANGED <<job, err, fetched, rows, page_token, idx, models_by_key, parts_by_sku, shop_vars>>

PartsNext(Records, maxRows) ==
  \/ get_lark_headers
  \/ FetchPage(Records, maxRows)
  \/ AggregateRow
  \/ WriteSnapshot

(* ----------------------------- catalog job ----------------------------- *)
\* a variant node: sku is a JSON value; image is [url, originalSrc], <<>>
\* standing for a missing image or a missing field
Variant(sku, gid, price, qty, avail, url, originalSrc) ==
  [sku |-> sku, id |-> gid, price |-> price, inventoryQuantity |-> qty,
   availableForSale |-> avail, url |-> url, originalSrc |-> originalSrc]

\* gid.rsplit("/", 1)[-1]
RECURSIVE AfterLastSlash(_)
AfterLastSlash(g) ==
  IF \A k \in DOMAIN g : g[k] # "/" THEN g
  ELSE AfterLastSlash(Tail(g))

\* (v.get("sku") or "").strip().lower()
NormSku(v) == Lower(Strip(IF Truthy(v.sku) THEN v.sku.s ELSE <<>>))

\* the dictionary stored for one variant; ok = FALSE when int(vid) raises
MapEntry(handle, v) ==
  LET vid == ParseNumber(AfterLastSlash(v.id))
  IN [ok |-> vid.ok,
      entry |-> [variant_id |-> vid.v, gid |-> v.id, price |-> v.price,
                 inventoryQuantity |-> v.inventoryQuantity,
                 availableForSale |-> v.availableForSale,
                 image |-> IF v.url # <<>> THEN v.url ELSE v.originalSrc,
                 handle |-> handle]]

\* variant of Put: an entry without image keeps the image stored before
PutMerge(m, sku, entry) ==
  [s \in (DOMAIN m) \cup {sku} |->
     IF s # sku THEN m[s]
     ELSE IF sku \in DOMAIN m /\ entry.image = <<>>
          THEN [entry EXCEPT !.image = m[sku].image]
          ELSE entry]

\* sku_map[sku] = {...}
Put(m, sku, entry) ==
  [s \in (DOMAIN m) \cup {sku} |-> IF s = sku THEN entry ELSE m[s]]

\* "for vedge in node[variants][edges]" of one product
RECURSIVE ProcessVariants(_, _, _)
ProcessVariants(handle, vs, acc) ==
  IF vs = <<>> \/ ~acc.ok THEN acc
  ELSE LET v == Head(vs)
           sku == NormSku(v)
           e == MapEntry(handle, v)
           sn == Append(acc.seen, [handle |-> handle, v |-> v])
       IN ProcessVariants(handle, Tail(vs),
            IF sku = <<>> THEN [acc EXCEPT !.seen = sn]
            ELSE IF ~e.ok THEN [acc EXCEPT !.ok = FALSE]
            ELSE [ok |-> TRUE, map |-> Put(acc.map, sku, e.entry), seen |-> sn])

\* "for edge in data[edges]"
RECURSIVE ProcessEdges(_, _)
ProcessEdges(edges, acc) ==
  IF edges = <<>> \/ ~acc.ok THEN acc
  ELSE ProcessEdges(Tail(edges),
         ProcessVariants(Head(edges).handle, Head(edges).variants, acc))

RECURSIVE CountVariants(_)
CountVariants(edges) ==
  IF edges = <<>> THEN 0 ELSE Len(Head(edges).variants) + CountVariants(Tail(edges))

\* 2**n
RECURSIVE Pow2(_)
Pow2(n) == IF n = 0 THEN 1 ELSE 2 * Pow2(n - 1)

\* main() up to the first request
StartMain ==
  /\ job = "shopify" /\ pc = "start"
  /\ pc' = "gql"
  /\ UNCHANGED <<job, err, parts_vars, shop_vars>>

\* the answers of the endpoint: products of at most n variants in all
Products(Variants, n) ==
  {[handle |-> hd, variants |-> vs] :
     hd \in {<<"h">>, <<"k">>}, vs \in SeqsUpTo(Variants, n)}

PagesOf(Variants, n) ==
  {[edges |-> e, hasNextPage |-> h] :
     e \in {<<>>} \cup {<<p>> : p \in Products(Variants, n)}
          \cup UNION {{<<p, q>> : q \in Products(Variants, n - Len(p.variants))} :
                        p \in Products(Variants, n)},
     h \in BOOLEAN}

\* one iteration of the for loop of run_gql: one POST and its response.
\* status 2000 stands for HTTP 200 with a GraphQL "errors" payload in the body
Post(Statuses, Variants) ==
  /\ job = "shopify" /\ pc = "gql" /\ i < retries
  /\ \E status \in Statuses :
       /\ log' = Append(log, status)
       /\ IF status \in {200, 2000}
          THEN IF status = 2000
               THEN Fail("RuntimeError") /\ UNCHANGED <<i, slept, data>>
               ELSE /\ \E page \in PagesOf(Variants, MaxVariants - Len(seen)) :
                         /\ page.hasNextPage => cursor + 1 < MaxCalls
                         /\ data' = page
                    /\ pc' = "page"
                    /\ UNCHANGED <<err, i, slept>>
          ELSE IF status \in Transient
          THEN /\ slept' = Append(slept, Pow2(i))
               /\ i' = i + 1
               /\ IF i + 1 = retries THEN Fail("Max retries")
                  ELSE UNCHANGED <<pc, err>>
               /\ UNCHANGED data
          ELSE Fail("HTTP") /\ UNCHANGED <<i, slept, data>>
  /\ UNCHANGED <<job, parts_vars, cursor, seen, sku_map, map_file>>

\* variant of ProcessPage: the map file is rewritten after every page
ProcessPageWriting ==
  /\ job = "shopify" /\ pc = "page"
  /\ LET r == ProcessEdges(data.edges, [ok |-> TRUE, map |-> sku_map, seen |-> seen])
     IN IF ~r.ok
        THEN Fail("ValueError")
             /\ UNCHANGED <<i, log, slept, cursor, seen, sku_map, map_file>>
        ELSE /\ sku_map' = r.map /\ seen' = r.seen
             /\ map_file' = [written |-> TRUE, map |-> r.map]
             /\ err' = err
             /\ IF data.hasNextPage
                THEN /\ cursor' = cursor + 1
                     /\ pc' = "gql" /\ i' = 0 /\ log' = <<>> /\ slept' = <<>>
                ELSE pc' = "write" /\ UNCHANGED <<i, log, slept, cursor>>
  /\ UNCHANGED <<job, parts_vars, data>>

\* the body of the while loop of main() after run_gql has returned
ProcessPage ==
  /\ job = "shopify" /\ pc = "page"
  /\ LET r == ProcessEdges(data.edges, [ok |-> TRUE, map |-> sku_map, seen |-> seen])
     IN IF ~r.ok
        THEN Fail("ValueError") /\ UNCHANGED <<i, log, slept, cursor, seen, sku_map>>
        ELSE /\ sku_map' = r.map /\ seen' = r.seen
             /\ err' = err
             /\ IF data.hasNextPage
                THEN /\ cursor' = cursor + 1
                     /\ pc' = "gql" /\ i' = 0 /\ log' = <<>> /\ slept' = <<>>
                ELSE pc' = "write" /\ UNCHANGED <<i, log, slept, cursor>>
  /\ UNCHANGED <<job, parts_vars, data, map_file>>

WriteMap ==
  /\ job = "shopify" /\ pc = "write"
  /\ map_file' = [written |-> TRUE, map |-> sku_map]
  /\ pc' = "done"
  /\ UNCHANGED <<job, err, parts_vars, i, log, slept, cursor, data, seen, sku_map>>

CatalogNext(Statuses, Variants) ==
  \/ StartMain
  \/ Post(Statuses, Variants)
  \/ ProcessPage
  \/ WriteMap

(* ------------------------------ inputs --------------------------------- *)
P1 == <<"P", "1">>
P2 == <<"P", "2">>
NoPics == EmptyList
Pic(c) == ListOfPic(<<c>>, <<>>)

\* merge scenarios: price, picture and name vary, two part numbers
RecordsMerge ==
  {RawRecord(Str(pn), name, Str(<<"m">>), Absent, Num(price), Num(1), pics) :
     pn \in {P1, P2}, name \in {Absent, Str(<<"n">>), Str(<<"k">>)},
     price \in {0, 5, 10}, pics \in {NoPics, Pic("x"), Pic("y")}}

\* stock scenarios: price and stock vary, two part numbers
RecordsStock ==
  {RawRecord(Str(pn), Absent, Str(<<"m">>), Absent, Num(price), Num(stock), NoPics) :
     pn \in {P1, P2}, price \in {0, 5, 9}, stock \in {0, 1, 2}}

\* model scenarios: (model number, model name) pairs whose slugs collide,
\* are empty, or are missing
ModelFields ==
  { <<Str(<<"a", "-", "1">>), Absent>>,
    <<Str(<<>>), Str(<<"a", " ", "1">>)>>,
    <<TextDict(<<"A", "-", "1">>), Str(<<"B">>)>>,
    <<Str(<<"a", "-", "1", "-", "2">>), Absent>>,
    <<Str(<<"-">>), Absent>>,
    <<Str(<<" ">>), Str(<<"a", " ", "1">>)>>,
    <<Str(<<>>), Str(<<>>)>>,
    <<Absent, Absent>> }

RecordsModels ==
  {RawRecord(Str(pn), Absent, mf[1], mf[2], Num(5), Num(1), NoPics) :
     pn \in {P1, P2}, mf \in ModelFields}

\* normalizer scenarios: every shape the part number, price and stock
\* columns may take
RecordsNorm ==
  {RawRecord(pn, Absent, Str(<<"m">>), Absent, price, stock, NoPics) :
     pn \in {Absent, Str(<<>>), Str(<<" ">>), Str(P1), Str(<<" ">> \o P1), Num(7)},
     price \in {Absent, Num(5), Str(<<"5">>), Str(<<"x">>), EmptyList,
                ListOfNum(5), OtherDict},
     stock \in {Absent, Num(0), Num(2), Str(<<"2">>), Str(<<"x">>),
                ListOfNum(2), OtherDict}}

\* default job: a good record, a second part, a record that is skipped
RecordsBasic ==
  {RawRecord(Str(P1), Str(<<"n">>), Str(<<"m">>), Absent, Num(5), Num(2), Pic("x")),
   RawRecord(Str(P2), Absent, Absent, Str(<<"M">>), ListOfNum(9), Str(<<"1">>), NoPics),
   RawRecord(Absent, Absent, Absent, Absent, Absent, Absent, NoPics)}

G1 == <<"g", "/", "1">>
G2 == <<"g", "/", "2">>

\* catalog scenarios: a missing SKU, two spellings of one SKU, another SKU,
\* each on a variant with an image and on one without
VariantsFull ==
  {Variant(sku, d[1], d[2], d[3], d[4], d[5], d[6]) :
     sku \in {Null, Str(<<" ", "A", "1", " ">>), Str(<<"a", "1">>), Str(<<"b">>)},
     d \in { <<G1, 5, 1, TRUE, <<"u">>, <<"o">> >>,
             <<G2, 9, 0, FALSE, <<>>, <<>> >> }}

VariantsBasic ==
  {Variant(Str(<<" ", "A", "1", " ">>), G1, 5, 1, TRUE, <<"u">>, <<"o">>),
   Variant(Str(<<"a", "1">>), G2, 9, 0, FALSE, <<>>, <<>>)}

StatusesAll == {200, 2000, 429, 520, 502, 503, 404, 500}
StatusesFew == {200, 2000, 429, 404}

(* --------------------------- specifications ---------------------------- *)
InitShop == job = "shopify" /\ InitCommon

Next ==
  \/ PartsNext(RecordsBasic, MaxRows)
  \/ CatalogNext(StatusesAll, VariantsBasic)
Spec == Init /\ [][Next]_vars

NextMerge == PartsNext(RecordsMerge, MaxRowsMerge)
SpecMerge == InitParts /\ [][NextMerge]_vars

NextStock == PartsNext(RecordsStock, MaxRowsModels)
SpecStock == InitParts /\ [][NextStock]_vars

NextModels == PartsNext(RecordsModels, MaxRowsModels)
SpecModels == InitParts /\ [][NextModels]_vars

NextNorm == PartsNext(RecordsNorm, MaxRowsNorm)
SpecNorm == InitParts /\ [][NextNorm]_vars

NextCatalog == CatalogNext(StatusesFew, VariantsFull)
SpecCatalog == InitShop /\ [][NextCatalog]_vars

(* ------------------------------ properties ----------------------------- *)
Max(S) == CHOOSE x \in S : \A y \in S : y <= x

\* the rows of one SKU among the first n rows
RowsOf(sku, n) == {k \in 1..n : rows[k].sku = sku}

LastPrice(sku, n) ==
  LET K == {k \in RowsOf(sku, n) : rows[k].price # 0}
  IN IF K = {} THEN 0 ELSE rows[Max(K)].price
LastImage(sku, n) ==
  LET K == {k \in RowsOf(sku, n) : rows[k].image # <<>>}
  IN IF K = {} THEN <<>> ELSE rows[Max(K)].image
LastName(sku, n) ==
  LET K == {k \in RowsOf(sku, n) : rows[k].name # <<>>}
  IN IF K = {} THEN <<>> ELSE rows[Max(K)].name
LastNonZeroStock(sku, n) ==
  LET K == {k \in RowsOf(sku, n) : rows[k].stock # 0}
  IN IF K = {} THEN 0 ELSE rows[Max(K)].stock
LastRowStock(sku, n) == rows[Max(RowsOf(sku, n))].stock

\* the parts held after idx rows, and the parts of the written snapshot
PartsNow == {parts_by_sku[k] : k \in DOMAIN parts_by_sku}
PartsOut == {parts_file.parts[k] : k \in DOMAIN parts_file.parts}
Aggregating == job = "parts" /\ pc \in {"aggregate", "done"}

\* C1: price, image and name of a Part are each the value of the last row of
\* its SKU with a non-falsy value for that field (0 / "" when there is none),
\* during the aggregation and in the written snapshot.
C1_LastNonFalsyWins ==
  Aggregating =>
    /\ \A p \in PartsNow :
         /\ p.price_eur = LastPrice(p.sku, idx)
         /\ p.image = LastImage(p.sku, idx)
         /\ p.name = LastName(p.sku, idx)
    /\ pc = "done" =>
         /\ {p.sku : p \in PartsOut} = {rows[k].sku : k \in DOMAIN rows}
         /\ \A p \in PartsOut :
              /\ p.price_eur = LastPrice(p.sku, Len(rows))
              /\ p.image = LastImage(p.sku, Len(rows))
              /\ p.name = LastName(p.sku, Len(rows))

\* a snapshot written from rows A (price set, no image) then B (price 0, an
\* image) of one SKU
C1_Witness ==
  /\ job = "parts" /\ pc = "done"
  /\ \E a, b \in DOMAIN rows :
       /\ a < b /\ rows[a].sku = rows[b].sku
       /\ rows[a].price = 10 /\ rows[a].image = <<>>
       /\ rows[b].price = 0 /\ rows[b].image = <<"x">>
       /\ \E p \in PartsOut :
            p.sku = rows[a].sku /\ p.price_eur = 10 /\ p.image = <<"x">>

C3_ModelIdsUnique ==
  job = "parts" =>
    /\ \A j, k \in DOMAIN models_by_key :
         j # k => /\ models_by_key[j].id # models_by_key[k].id
                  /\ models_by_key[j].key # models_by_key[k].key
    /\ \A k \in DOMAIN models_by_key :
         LET orig == _slug(models_by_key[k].key)
             earlier == {models_by_key[j].id : j \in 1..(k - 1)}
             Sfx(n) == orig \o <<"-">> \o ToString(n)
         IN IF orig \notin earlier THEN models_by_key[k].id = orig
            ELSE \E n \in 2..(k + 1) :
                   /\ models_by_key[k].id = Sfx(n)
                   /\ Sfx(n) \notin earlier
                   /\ \A m \in 2..(n - 1) : Sfx(m) \in earlier
    /\ pc = "done" =>
         /\ Len(parts_file.models) = Len(models_by_key)
         /\ \A j, k \in DOMAIN parts_file.models :
              j # k => parts_file.models[j].id # parts_file.models[k].id

\* a snapshot with three Models of one slug: the third has the suffix -3
C3_Witness ==
  /\ job = "parts" /\ pc = "done"
  /\ \E k \in DOMAIN models_by_key :
       /\ models_by_key[k].id = _slug(models_by_key[k].key) \o <<"-", "3">>
       /\ \E j \in DOMAIN parts_file.models :
            parts_file.models[j].id = models_by_key[k].id

\* the Model key of a row as the data model defines it
KeyOfRow(r) ==
  IF Strip(r.model_number) # <<>> THEN Strip(r.model_number) ELSE Strip(r.model_name)

\* C4: for every processed row with a non-empty model key, the id of the
\* Model of that key is in the compatible_models of the row's Part, and in
\* the written list of that Part.
C4_CompatibleModelsAccumulate ==
  Aggregating =>
    \A k \in 1..idx :
      KeyOfRow(rows[k]) # <<>> =>
        /\ KeyOfRow(rows[k]) \in ModelKeys(models_by_key)
        /\ \E p \in PartsNow :
             /\ p.sku = rows[k].sku
             /\ ModelOfKey(models_by_key, KeyOfRow(rows[k])).id \in p.compatible_models
        /\ pc = "done" =>
             \E p \in PartsOut :
               /\ p.sku = rows[k].sku
               /\ ModelOfKey(models_by_key, KeyOfRow(rows[k])).id
                    \in Range(p.compatible_models)

\* a model column that is missing, null or blank
Blank(x) ==
  \/ x.t \in {"absent", "null"}
  \/ x.t = "str" /\ Strip(x.s) = <<>>
  \/ x.t = "dict" /\ x.k = "text" /\ Strip(x.s) = <<>>

\* C5: when no record of the table has a model number or a model name, the
\* snapshot has no Model and no Part lists a compatible model.
C5_NoModelWithoutKey ==
  (/\ job = "parts" /\ pc = "done"
   /\ \A k \in DOMAIN fetched :
        Blank(fetched[k].ModelNumber) /\ Blank(fetched[k].ModelName))
  => /\ parts_file.models = <<>>
     /\ \A p \in PartsOut : p.compatible_models = <<>>

\* C6: no Part has an empty SKU, while aggregating and in the snapshot.
C6_NoEmptySku ==
  job = "parts" =>
    /\ \A p \in PartsNow : p.sku # <<>>
    /\ \A p \in PartsOut : p.sku # <<>>

\* C9: no value of the price or stock column aborts the run, and every
\* record with a part number is emitted as a row.
C9_DataErrorsNeverFatal ==
  job = "parts" =>
    /\ err # "ValueError"
    /\ pc \in {"aggregate", "done"} =>
         Len(rows) = Cardinality({k \in DOMAIN fetched : Truthy(fetched[k].PN)})

\* C7: a run that aborts leaves both output files as they were, and a file
\* is written only by the last step of a run that fetched and built all.
C7_NoSnapshotOnFailure ==
  /\ pc = "failed" => parts_file = NoFile /\ map_file = NoMap
  /\ parts_file.written => job = "parts" /\ pc = "done" /\ idx = Len(rows)
  /\ map_file.written => job = "shopify" /\ pc = "done" /\ ~data.hasNextPage

\* the catalog run aborts on exhausted retries with a page already collected
C7_Witness ==
  /\ job = "shopify" /\ pc = "failed" /\ err = "Max retries"
  /\ sku_map # <<>> /\ cursor = 1
  /\ map_file = NoMap

C8_TransientStatuses == {429, 502, 503, 520}

\* C8: one run_gql call sends at most 3 requests; every request but the last
\* was answered by a transient status, each followed by a sleep of 2^attempt
\* seconds; three transient answers end in "Max retries"; any other non-200
\* status and a 200 with an errors payload end the run at once; data is
\* returned only from a 200 without errors.
C8_BoundedRetry ==
  job = "shopify" =>
    /\ Len(log) <= 3
    /\ \A k \in 1..(Len(log) - 1) : log[k] \in C8_TransientStatuses
    /\ Len(slept) = Cardinality({k \in DOMAIN log : log[k] \in C8_TransientStatuses})
    /\ \A k \in DOMAIN slept : slept[k] = 2 ^ (k - 1)
    /\ log # <<>> =>
         LET last == log[Len(log)]
         IN /\ (last \in C8_TransientStatuses /\ Len(log) = 3)
                 => pc = "failed" /\ err = "Max retries"
            /\ (last \in C8_TransientStatuses /\ Len(log) < 3) => pc = "gql"
            /\ last = 2000 => pc = "failed" /\ err = "RuntimeError"
            /\ last \notin (C8_TransientStatuses \cup {200, 2000})
                 => pc = "failed" /\ err = "HTTP"
            /\ last = 200 => pc \in {"page", "write", "done", "failed"}
    /\ pc \in {"page", "write", "done"} => log # <<>> /\ log[Len(log)] = 200
    /\ (pc = "failed" /\ err = "Max retries") => Len(log) = 3

\* three transient answers in a row: slept 1, 2 and 4 seconds, then fatal
C8_Witness ==
  /\ job = "shopify" /\ pc = "failed" /\ err = "Max retries"
  /\ log = <<429, 503, 520>> /\ slept = <<1, 2, 4>>

SeenSkus ==
  {Lower(Strip(seen[k].v.sku.s)) : k \in DOMAIN seen} \ {<<>>}
LastSeen(s) == Max({k \in DOMAIN seen : Lower(Strip(seen[k].v.sku.s)) = s})

\* the data of one variant, as the map is to hold it
EntryOf(x) ==
  [variant_id |-> ParseNumber(AfterLastSlash(x.v.id)).v, gid |-> x.v.id,
   price |-> x.v.price, inventoryQuantity |-> x.v.inventoryQuantity,
   availableForSale |-> x.v.availableForSale,
   image |-> IF x.v.url # <<>> THEN x.v.url ELSE x.v.originalSrc,
   handle |-> x.handle]

\* C10: the map has exactly one entry per trimmed, lowercased non-empty SKU
\* of the variants traversed, holding the data of the last such variant and
\* nothing of earlier ones; the written map is that map, written after the
\* page without a next page.
C10_OneEntryLastWins ==
  job = "shopify" =>
    /\ DOMAIN sku_map = SeenSkus
    /\ \A s \in SeenSkus : sku_map[s] = EntryOf(seen[LastSeen(s)])
    /\ pc = "done" =>
         /\ map_file = [written |-> TRUE, map |-> sku_map]
         /\ ~data.hasNextPage

\* " A1 " with an image, then "a1" without: one entry "a1", no image
C10_Witness ==
  /\ job = "shopify" /\ pc = "done"
  /\ \E a, b \in DOMAIN seen :
       /\ a < b
       /\ seen[a].v.sku.s = <<" ", "A", "1", " ">> /\ seen[a].v.url # <<>>
       /\ seen[b].v.sku.s = <<"a", "1">> /\ seen[b].v.url = <<>>
       /\ seen[b].v.originalSrc = <<>>
       /\ LastSeen(<<"a", "1">>) = b
  /\ DOMAIN map_file.map = {<<"a", "1">>}
  /\ map_file.map[<<"a", "1">>].image = <<>>

====
